---- MODULE Spec2Model ----
(***************************************************************************)
(* ScanCropper: detection, rectification and cropping of the items of a    *)
(* flatbed scan, with the batch drivers around it.                         *)
(*                                                                         *)
(* The repository holds four generations of the same class; the model      *)
(* carries them side by side, selected by the variable `variant`:          *)
(*   "part000"  src/unnamed/part_000 driven by src/cli.ts                  *)
(*   "srcsrc"   src/src/ScanCropper.ts driven by src/src/cli.ts            *)
(*   "main"     src/main.ts                                                *)
(*   "example"  the class of src/example.ts (lines 41-308)                 *)
(*                                                                         *)
(* Numbers.  The JavaScript numbers of the geometry are fixed point here:  *)
(* lengths and coordinates in 1/CoordScale pixel, sines and cosines in     *)
(* 1/TrigScale.  Math.round is RoundDiv (half rounds up, as in JS).        *)
(***************************************************************************)
EXTENDS Integers, Sequences, FiniteSets, TLC

VARIABLES
    variant,    \* which generation of the code runs
    settings,   \* Settings: writeOutput, outputDir, outputFormat
    inputs,     \* what the input files hold: "scans", "geometry", "replay"
    pc,         \* the driver: "new", "batch", "done", "crashed"
    todo,       \* files of the batch not yet handed to processBuffer
    images,     \* this.images
    scans,      \* this.scans
    errors,     \* this.errors
    phase,      \* position of the processBuffer call in flight
    buf,        \* the buffer argument of the call in flight
    img,        \* the decoded matrix (bgr / matSrc)
    contours,   \* cv.findContours' result
    regions,    \* getCandidateRegions' result
    k,          \* clipScans' loop position (1-based)
    scanMats,   \* clipScans' result so far
    i,          \* processBuffer's loop position over the scans (1-based)
    result,     \* resultImages / outBuffers / results
    written,    \* the files written for the image in flight
    calls,      \* history: processBuffer calls issued
    scans0,     \* history: this.scans when the call in flight began
    errors0,    \* history: this.errors when the call in flight began
    clipLog,    \* history: what clipScans did with each candidate
    first,      \* history: the outcome of the instance's first completed call
    native,     \* history: the native buffers (cv.Mat, cv.MatVector) of the
                \* call: allocated and not deleted, deleted, deleted twice
    rt,         \* the OpenCV runtime: has its event fired, and the handler
                \* installed in cv.onRuntimeInitialized
    inits,      \* the promise of each init() call
    running,    \* the processBuffer call that holds the thread, 0 for none
    acall,      \* the processBuffer calls issued without awaiting each other
    shared,     \* this.matSrc, this.contours and the call that wrote them
    conc        \* history: calls overlapped; a call read another's buffers

vars == <<variant, settings, inputs, pc, todo, images, scans, errors, phase, buf, img,
          contours, regions, k, scanMats, i, result, written, calls, scans0,
          errors0, clipLog, first, native, rt, inits, running, acall, shared,
          conc>>
asyncVars == <<rt, inits, running, acall, shared, conc>>

(***************************************************************************)
(* Bounds of the model.                                                    *)
(***************************************************************************)
MaxFiles == 2      \* files in a batch
ImgCols == 20      \* width of a decoded image, pixels
ImgRows == 10      \* height of a decoded image, pixels

(***************************************************************************)
(* Number representation.                                                  *)
(***************************************************************************)
CoordScale == 1000
TrigScale == 10000

\* Math.round(n / d) for d > 0: the nearest integer, a half going up.
RoundDiv(n, d) == (2 * n + d) \div (2 * d)

MinOf(S) == CHOOSE m \in S : \A e \in S : m <= e
MaxOf(S) == CHOOSE m \in S : \A e \in S : m >= e
Max2(a, b) == IF a >= b THEN a ELSE b
Min2(a, b) == IF a <= b THEN a ELSE b

\* Math.sin / Math.cos of an angle in degrees, for the angles of the model.
Angles == {-90, -80, -10, 0, 10, 80, 90}
SinAbs(a) == CASE a = 0 -> 0 [] a = 10 -> 1736 [] a = 80 -> 9848 [] a = 90 -> TrigScale
CosAbs(a) == CASE a = 0 -> TrigScale [] a = 10 -> 9848 [] a = 80 -> 1736 [] a = 90 -> 0
SinDeg(a) == IF a < 0 THEN 0 - SinAbs(0 - a) ELSE SinAbs(a)
CosDeg(a) == IF a < 0 THEN CosAbs(0 - a) ELSE CosAbs(a)

(***************************************************************************)
(* Inputs.  An image is the set of blobs its mask shows; a blob stands for *)
(* its contour, and cv.minAreaRect gives the contour's rotated rectangle.  *)
(***************************************************************************)
Rect(cx, cy, w, h, a) ==
    [center |-> [x |-> cx, y |-> cy], size |-> [width |-> w, height |-> h], angle |-> a]

BlobNames == {"A", "B", "C", "D", "E"}

\* cv.findContours returns the contours of an image in one fixed order.
ContourOrder ==
    <<"A", "B", "C", "D", "E", "F", "G", "P", "Q", "R", "T", "U", "W">>

\* cv.minAreaRect(cnt).  With a 20 x 10 image, 3% of the image is 6 px^2:
\*   A  2 x 3 = 6 px^2, exactly the threshold
\*   B  1 x 7 = 7 px^2, the next whole area
\*   C  6 x 4 = 24 px^2, reported at -80 degrees
\*   D  0.8 x 8 = 6.4 px^2, a sliver whose rounded corners coincide in x
\*   E  3 x 3 = 9 px^2 centred left of the image (a malformed rectangle,
\*      whose clipped width is negative)
\* The rectangles of the geometry inputs:
\*   F  a 4 x 4 square reported at 80 degrees
\*   G  the same square, elsewhere in the image, reported at -10 degrees
\*   P  4 x 4 over the top left corner of the image
\*   Q  4 x 4 over the bottom right corner of the image
\*   R, T, U  3 x 3 centred right of, above and below the image
\*   W  24 x 14, covering the image and more on every side
minAreaRect(cnt) ==
    CASE cnt = "A" -> Rect(5000, 5000, 2000, 3000, 0)
      [] cnt = "B" -> Rect(15000, 5000, 1000, 7000, 0)
      [] cnt = "C" -> Rect(6000, 5000, 6000, 4000, -80)
      [] cnt = "D" -> Rect(10000, 5000, 800, 8000, 0)
      [] cnt = "E" -> Rect(-4000, 5000, 3000, 3000, 0)
      [] cnt = "F" -> Rect(5000, 5000, 4000, 4000, 80)
      [] cnt = "G" -> Rect(14000, 5000, 4000, 4000, -10)
      [] cnt = "P" -> Rect(1000, 1000, 4000, 4000, 0)
      [] cnt = "Q" -> Rect(19000, 9000, 4000, 4000, 0)
      [] cnt = "R" -> Rect(24000, 5000, 3000, 3000, 0)
      [] cnt = "T" -> Rect(10000, -4000, 3000, 3000, 0)
      [] cnt = "U" -> Rect(10000, 14000, 3000, 3000, 0)
      [] cnt = "W" -> Rect(10000, 5000, 24000, 14000, 0)

NoBuffer == [decode |-> "none", blobs |-> {}]
Buffers ==
    {[decode |-> "throws", blobs |-> {}], [decode |-> "empty", blobs |-> {}]}
    \cup {[decode |-> "ok", blobs |-> bs] : bs \in SUBSET BlobNames}

\* The geometry inputs: decodable images showing at most two of the
\* rectangles that exercise the angle fix-up and the clipping.
GeomNames == {"C", "E", "F", "G", "P", "Q", "R", "T", "U", "W"}
GeomBuffers ==
    {[decode |-> "ok", blobs |-> bs] :
        bs \in {t \in SUBSET GeomNames : Cardinality(t) <= 2}}
\* The replay inputs: decodable images, to be processed more than once by
\* one instance.
ReplayNames == {"B", "C", "E"}
ReplayBuffers == {[decode |-> "ok", blobs |-> bs] : bs \in SUBSET ReplayNames}

\* The buffers a file of the input directory can hold.
BuffersOf(kind) ==
    CASE kind = "geometry" -> GeomBuffers
      [] kind = "replay" -> ReplayBuffers
      [] OTHER -> Buffers

NoMat == [cols |-> 0, rows |-> 0]
Empty(mat) == mat.cols = 0 \/ mat.rows = 0
\* The matrix a successful decode gives.
DecodedImage == [cols |-> ImgCols, rows |-> ImgRows]

Formats == {"png", "jpg"}
SettingsSpace ==
    [writeOutput : BOOLEAN, outputDir : {"none", "ok", "bad"}, outputFormat : Formats]
\* The geometry does not depend on the output settings: no output.
GeomSettings == {s \in SettingsSpace : ~s.writeOutput /\ s.outputDir = "none"}


AllVariants == {"part000", "srcsrc", "main", "example"}
CurrentVariants == {"part000", "srcsrc", "main"}

(***************************************************************************)
(* RegionExtractor: getCandidateRegions.                                   *)
(***************************************************************************)
AreaPercent == 3        \* the 0.03 of `area > imgArea * 0.03`
AngleFixLimit == -45    \* `if (angle < -45) angle += 90`
AngleFixStep == 90

\* rect.size.width * rect.size.height, in 1/CoordScale^2 px^2
RectArea(rect) == rect.size.width * rect.size.height

\* area > imgArea * 0.03, imgArea in px^2.  For the whole-pixel image areas
\* that are multiples of 100 the double product imgArea * 0.03 is exact.
AreaPasses_Inclusive(area, imgArea) ==
    area >= imgArea * AreaPercent * ((CoordScale * CoordScale) \div 100)
AreaPasses(area, imgArea) ==
    area > imgArea * AreaPercent * ((CoordScale * CoordScale) \div 100)

\* One element of `regions`.  `cnt` names the contour the region came from
\* (history: the code keeps no such field).
Region(cnt) ==
    [rect |-> minAreaRect(cnt), area |-> RectArea(minAreaRect(cnt)), cnt |-> cnt]

\* r put into the area-descending list s behind every element that is not
\* smaller: Array.prototype.sort is stable.
RECURSIVE InsertByArea(_, _)
InsertByArea(r, s) ==
    IF s = <<>> THEN <<r>>
    ELSE IF Head(s).area >= r.area THEN <<Head(s)>> \o InsertByArea(r, Tail(s))
    ELSE <<r>> \o s

\* regions.sort((a, b) => b.area - a.area)
SortByAreaDesc_NoSort(s) == s
RECURSIVE SortByAreaDesc(_)
SortByAreaDesc(s) ==
    IF s = <<>> THEN <<>>
    ELSE InsertByArea(s[Len(s)], SortByAreaDesc(SubSeq(s, 1, Len(s) - 1)))

\* The loop of getCandidateRegions: the contours that pass, in contour order.
FilterContours_NoFilter(image, cs) == [n \in DOMAIN cs |-> Region(cs[n])]
RECURSIVE FilterContours(_, _)
FilterContours(image, cs) ==
    IF cs = <<>> THEN <<>>
    ELSE (IF AreaPasses(RectArea(minAreaRect(Head(cs))), image.rows * image.cols)
          THEN <<Region(Head(cs))>> ELSE <<>>)
         \o FilterContours(image, Tail(cs))

getCandidateRegions(image, cs) == SortByAreaDesc(FilterContours(image, cs))

\* cv.findContours on the mask of an image showing the blobs bs.
RECURSIVE ContoursIn(_, _)
ContoursIn(bs, order) ==
    IF order = <<>> THEN <<>>
    ELSE (IF Head(order) \in bs THEN <<Head(order)>> ELSE <<>>)
         \o ContoursIn(bs, Tail(order))
findContours(bs) == ContoursIn(bs, ContourOrder)

\* cv.findContours(bin, contours, hierarchy, ...) into a MatVector that may
\* hold the contours of an earlier call (src/src reuses this.contours): the
\* output vector is cleared and refilled.
FindContoursInto_Append(old, bs) == old \o findContours(bs)
FindContoursInto(old, bs) == findContours(bs)

(***************************************************************************)
(* Rectifier and Cropper: one iteration of clipScans.                      *)
(***************************************************************************)
\* `if (angle < -45) angle += 90`
FixAngle_BothSides(angle) ==
    IF angle < AngleFixLimit THEN angle + AngleFixStep
    ELSE IF angle > 0 - AngleFixLimit THEN angle - AngleFixStep
    ELSE angle
FixAngle(angle) == IF angle < AngleFixLimit THEN angle + AngleFixStep ELSE angle

\* cv.RotatedRect.points(rect): the four corners, from centre, size, angle.
RotatedRectPoints(rect) ==
    LET s == SinDeg(rect.angle)
        c == CosDeg(rect.angle)
        w == rect.size.width
        h == rect.size.height
        cx == rect.center.x
        cy == rect.center.y
        p0 == [x |-> cx - RoundDiv(s * h + c * w, 2 * TrigScale),
               y |-> cy + RoundDiv(c * h - s * w, 2 * TrigScale)]
        p1 == [x |-> cx + RoundDiv(s * h - c * w, 2 * TrigScale),
               y |-> cy - RoundDiv(c * h + s * w, 2 * TrigScale)]
    IN  <<p0, p1, [x |-> 2 * cx - p0.x, y |-> 2 * cy - p0.y],
                  [x |-> 2 * cx - p1.x, y |-> 2 * cy - p1.y]>>

Xs(pts) == {pts[n].x : n \in DOMAIN pts}
Ys(pts) == {pts[n].y : n \in DOMAIN pts}

getCenter(pts) ==
    [x |-> (MinOf(Xs(pts)) + MaxOf(Xs(pts))) \div 2,
     y |-> (MinOf(Ys(pts)) + MaxOf(Ys(pts))) \div 2]

\* rotatePoints: rad = -angleDeg * pi / 180; the results are whole pixels.
rotatePoints(pts, angleDeg, center) ==
    LET sin == 0 - SinDeg(angleDeg)
        cos == CosDeg(angleDeg)
        rot(p) ==
            LET dx == p.x - center.x
                dy == p.y - center.y
            IN  [x |-> RoundDiv(dx * cos - dy * sin + center.x * TrigScale,
                                CoordScale * TrigScale),
                 y |-> RoundDiv(dx * sin + dy * cos + center.y * TrigScale,
                                CoordScale * TrigScale)]
    IN  [n \in DOMAIN pts |-> rot(pts[n])]

\* rotateImage: warpAffine into a matrix of the source's size.
rotateImage(image, angle, center) == [cols |-> image.cols, rows |-> image.rows]

\* x1, y1, x2, y2 of clipScans and the cv.Rect built from them.
ClipRect(rpts, image) ==
    LET x1 == Max2(MinOf(Xs(rpts)), 0)
        y1 == Max2(MinOf(Ys(rpts)), 0)
        x2 == Min2(MaxOf(Xs(rpts)), image.cols)
        y2 == Min2(MaxOf(Ys(rpts)), image.rows)
    IN  [x |-> x1, y |-> y1, width |-> x2 - x1, height |-> y2 - y1]

\* cv.Mat.roi(rect) throws unless the rectangle lies in the matrix; a
\* rectangle of width or height 0 lies in it and gives an empty matrix.
RoiThrows_Never(mat, r) == FALSE
RoiThrows(mat, r) ==
    ~(/\ 0 <= r.x /\ 0 <= r.width /\ r.x + r.width <= mat.cols
      /\ 0 <= r.y /\ 0 <= r.height /\ r.y + r.height <= mat.rows)
Roi(mat, r) == [cols |-> r.width, rows |-> r.height]

\* The cv.Rect clipScans computes for a region.
RegionRoi(image, region) ==
    LET pts == RotatedRectPoints(region.rect)
        center == getCenter(pts)
    IN  ClipRect(rotatePoints(pts, FixAngle(region.rect.angle), center), image)


(***************************************************************************)
(* What differs between the generations of the code.                       *)
(***************************************************************************)
\* Deno.mkdir / fs.mkdirSync is reached and throws.
MkdirFails_Ignored(v, s) == FALSE
MkdirFails(v, s) ==
    CASE v \in {"part000", "srcsrc"} -> s.writeOutput /\ s.outputDir = "bad"
      [] v = "main" -> s.writeOutput /\ s.outputDir \in {"bad", "none"}
      [] v = "example" -> s.writeOutput /\ s.outputDir = "bad"

\* The condition under which a crop is written to a file.
WritesFiles(v, s) ==
    IF v \in {"part000", "srcsrc"} THEN s.writeOutput /\ s.outputDir # "none"
    ELSE s.writeOutput

\* The format the crop's bytes are encoded in.
EncodeFormat(v, s) == IF v = "part000" THEN "png" ELSE s.outputFormat

\* An empty decoded matrix ends the call early (`if (bgr.empty()) return`).
ChecksEmptyDecode(v) == v # "srcsrc"

\* rotateImage is called inside clipScans' try block.
RotateInsideTry(v) == v # "example"

\* `if (scan.empty()) continue` stands before `this.scans++`.
ScanCounts_All(scan) == TRUE
ScanCounts(scan) == ~Empty(scan)

\* `this.images++`, the first statement of processBuffer / processInput.
ImagesOnEntry_Forgotten(n) == n
ImagesOnEntry_Twice(n) == n + 2
ImagesOnEntry(n) == n + 1

EncodedCrop(fmt, scan) ==
    [format |-> fmt, cols |-> scan.cols, rows |-> scan.rows, cnt |-> scan.cnt]
FileOf(index, ext, crop) ==
    [index |-> index, ext |-> ext, format |-> crop.format, cnt |-> crop.cnt]

(***************************************************************************)
(* Native buffers.  A buffer is named by its role and, for the buffers of  *)
(* one contour or candidate, the contour.                                  *)
(***************************************************************************)
Single(role) == <<role, "">>
PerContour(role, cs) == {<<role, c>> : c \in cs}
NoNative == [live |-> {}, freed |-> {}, twice |-> {}]

\* new cv.Mat(), cv.matFromImageData, cv.matFromArray, contours.get(i), roi()
Allocate(n, S) == [n EXCEPT !.live = @ \cup S]
\* mat.delete()
Delete(n, S) ==
    [live |-> n.live \ S, freed |-> n.freed \cup S,
     twice |-> n.twice \cup (S \cap n.freed)]

\* this.matGray, this.matBin, this.contours, this.hierarchy of
\* src/src/ScanCropper.ts are allocated once and kept.
InstanceBuffers(v) ==
    IF v = "srcsrc"
    THEN {Single("gray"), Single("bin"), Single("contours"), Single("hierarchy")}
    ELSE {}

\* matFromImageData, cvtColor into bgr, rgbaMat.delete(), and bgr.delete()
\* before the early return.
NativeAfterDecode(v, n, outcome) ==
    CASE outcome = "throws" -> n
      [] outcome # "throws" /\ v = "srcsrc" -> Allocate(n, {Single("src")})
      [] outcome = "ok" /\ v # "srcsrc" ->
           Delete(Allocate(n, {Single("rgba"), Single("src")}), {Single("rgba")})
      [] outcome = "empty" /\ v # "srcsrc" ->
           Delete(Delete(Allocate(n, {Single("rgba"), Single("src")}),
                         {Single("rgba")}), {Single("src")})

\* findScans up to findContours.  src/src deletes `blurred` in a finally
\* and keeps the other buffers in the instance.
NativeAfterPreprocess(v, n) ==
    IF v = "srcsrc"
    THEN Delete(Allocate(n, InstanceBuffers(v) \cup {Single("blurred")}),
                {Single("blurred")})
    ELSE Delete(Allocate(n, {Single("blurred"), Single("gray"), Single("bin"),
                             Single("contours"), Single("hierarchy")}),
                {Single("blurred"), Single("gray"), Single("bin"),
                 Single("hierarchy")})

\* getCandidateRegions (cnt of every contour, matBox of every region; in
\* src/example.ts matBox of every contour) and contours.delete().
NativeAfterExtract(v, n, cs, regs) ==
    LET cnts == PerContour("cnt", {cs[j] : j \in DOMAIN cs})
        boxes == IF v = "example"
                 THEN PerContour("box", {cs[j] : j \in DOMAIN cs})
                 ELSE PerContour("box", {regs[j].cnt : j \in DOMAIN regs})
        looped == Delete(Allocate(n, cnts \cup boxes), cnts)
    IN  IF v = "srcsrc" THEN looped ELSE Delete(looped, {Single("contours")})

\* One iteration of clipScans: M and dst of rotateImage, the roi, and the
\* finally block (box.delete(); rotatedImg?.delete()).  When warpAffine
\* throws, rotatedImg is still null and dst is not deleted; src/example.ts
\* has no finally and does not reach its deletes.
NativeAfterClip(v, n, c, rotOk, roiThrows) ==
    LET M == <<"M", c>>
        dst == <<"rotated", c>>
        box == <<"box", c>>
        scan == <<"scan", c>>
    IN  CASE ~rotOk /\ v = "example" -> Allocate(n, {M, dst})
          [] ~rotOk /\ v # "example" -> Delete(Allocate(n, {M, dst}), {M, box})
          [] rotOk /\ roiThrows -> Delete(Allocate(n, {M, dst}), {M, box, dst})
          [] rotOk /\ ~roiThrows ->
               Delete(Allocate(n, {M, dst, scan}), {M, box, dst})

\* One iteration of processBuffer's loop over the scans.
NativeAfterEmit(v, s, n, c, empty) ==
    LET scan == <<"scan", c>>
        rgb == <<"rgb", c>>
        converted == Delete(Allocate(n, {rgb}), {scan, rgb})
    IN  CASE empty /\ v = "example" -> n
          [] empty /\ v # "example" -> Delete(n, {scan})
          [] ~empty /\ v \in {"part000", "srcsrc"} -> converted
          [] ~empty /\ v = "main" ->
               IF s.writeOutput THEN converted ELSE Delete(n, {scan})
          [] ~empty /\ v = "example" ->
               IF s.writeOutput THEN Allocate(n, {rgb}) ELSE n

\* bgr.delete() after the loop; src/src keeps this.matSrc.
NativeAfterLoop(v, n) == IF v = "srcsrc" THEN n ELSE Delete(n, {Single("src")})

(***************************************************************************)
(* The state machine.                                                      *)
(***************************************************************************)
callVars == <<buf, img, contours, regions, k, scanMats, i, result, written, clipLog>>
counters == <<images, scans, errors>>
history == <<calls, scans0, errors0, first>>

\* What a call was given and what it produced (history).  The candidates
\* for which warpAffine threw belong to what the call was given.
NoRun == [buf |-> NoBuffer, fails |-> {}, corners |-> <<>>, rois |-> <<>>,
          order |-> <<>>]
ThisRun ==
    [buf |-> buf,
     fails |-> {clipLog[n].cnt : n \in {m \in DOMAIN clipLog : ~clipLog[m].rotOk}},
     corners |-> [n \in DOMAIN regions |-> RotatedRectPoints(regions[n].rect)],
     rois |-> [n \in DOMAIN clipLog |-> clipLog[n].roi],
     order |-> [n \in DOMAIN scanMats |-> scanMats[n].cnt]]

\* The two processBuffer calls issued without awaiting each other, and the
\* first and a second call of init().
CallIds == {1, 2}
InitIds == {"init1", "init2"}

NoCall == [st |-> "idle", buf |-> NoBuffer, src |-> NoBuffer, contours |-> <<>>,
           fails |-> {}, scanMats |-> <<>>, idx |-> 1, crops |-> <<>>]
NoShared == [src |-> NoBuffer, contours |-> <<>>, owner |-> 0]

\* Nothing asynchronous has happened; handler is what stands in
\* cv.onRuntimeInitialized.
AsyncIdle(handler) ==
    /\ rt = [ready |-> FALSE, handler |-> handler]
    /\ inits = [n \in InitIds |-> "notcalled"]
    /\ running = 0
    /\ acall = [c \in CallIds |-> NoCall]
    /\ shared = NoShared
    /\ conc = [overlapped |-> FALSE, stale |-> FALSE]

SeqIdle ==
    /\ pc = "new"
    /\ todo = 0
    /\ images = 0 /\ scans = 0 /\ errors = 0
    /\ phase = "Idle"
    /\ buf = NoBuffer /\ img = NoMat
    /\ contours = <<>> /\ regions = <<>> /\ k = 1
    /\ scanMats = <<>> /\ i = 1
    /\ result = <<>> /\ written = <<>>
    /\ calls = 0 /\ scans0 = 0 /\ errors0 = 0
    /\ clipLog = <<>>
    /\ first = NoRun
    /\ native = NoNative

InitWith(V, S, I) ==
    /\ variant \in V
    /\ settings \in S
    /\ inputs = I
    /\ SeqIdle
    /\ AsyncIdle("none")

InitOf(V) == InitWith(V, SettingsSpace, "scans")
Init == InitOf(CurrentVariants)
InitAll == InitOf(AllVariants)
InitGeom == InitWith(AllVariants, GeomSettings, "geometry")
InitReplay == InitWith(AllVariants, GeomSettings, "replay")

\* init() / the constructor / the top of the cli: create the output
\* directory, then list the input directory.
InitCropper ==
    /\ pc = "new"
    /\ IF MkdirFails(variant, settings)
       THEN pc' = "crashed" /\ todo' = todo
       ELSE pc' = "batch" /\ todo' \in 0..MaxFiles
    /\ UNCHANGED <<variant, settings, inputs, asyncVars, counters, phase, callVars, history,
                   native>>

\* The batch loop hands the next file's bytes to processBuffer, which
\* counts the image before anything else.
StartFile ==
    /\ pc = "batch" /\ phase = "Idle" /\ todo > 0
    /\ todo' = todo - 1
    /\ buf' \in BuffersOf(inputs)
    /\ images' = ImagesOnEntry(images)
    /\ calls' = calls + 1
    /\ scans0' = scans /\ errors0' = errors
    /\ phase' = "Decoding"
    /\ img' = NoMat /\ regions' = <<>> /\ k' = 1
    /\ contours' = IF InstanceBuffers(variant) = {} THEN <<>> ELSE contours
    /\ scanMats' = <<>> /\ i' = 1 /\ result' = <<>> /\ written' = <<>>
    /\ clipLog' = <<>>
    /\ native' = [NoNative EXCEPT !.live = native.live \cap InstanceBuffers(variant)]
    /\ UNCHANGED <<variant, settings, inputs, asyncVars, pc, scans, errors, first>>

\* Image.load / sharp, matFromImageData, cvtColor, the empty check.
Decode ==
    /\ pc = "batch" /\ phase = "Decoding"
    /\ CASE buf.decode = "throws" ->
              pc' = "crashed" /\ UNCHANGED <<phase, img>>
         [] buf.decode = "empty" /\ ChecksEmptyDecode(variant) ->
              phase' = "Done" /\ UNCHANGED <<pc, img>>
         [] buf.decode = "empty" /\ ~ChecksEmptyDecode(variant) ->
              phase' = "Preprocessing" /\ img' = NoMat /\ pc' = pc
         [] buf.decode = "ok" ->
              /\ phase' = "Preprocessing"
              /\ img' = [cols |-> ImgCols, rows |-> ImgRows]
              /\ pc' = pc
    /\ native' = NativeAfterDecode(variant, native, buf.decode)
    /\ UNCHANGED <<variant, settings, inputs, asyncVars, todo, counters, buf, contours, regions, k,
                   scanMats, i, result, written, clipLog, history>>

\* medianBlur, cvtColor, threshold, findContours.  The cv calls throw on an
\* empty source matrix.
Preprocess ==
    /\ pc = "batch" /\ phase = "Preprocessing"
    /\ IF Empty(img)
       THEN pc' = "crashed" /\ UNCHANGED <<phase, contours>>
       ELSE pc' = pc /\ phase' = "Extracting" /\ contours' = FindContoursInto(contours, buf.blobs)
    /\ native' = NativeAfterPreprocess(variant, native)
    /\ UNCHANGED <<variant, settings, inputs, asyncVars, todo, counters, buf, img, regions, k,
                   scanMats, i, result, written, clipLog, history>>

Extract ==
    /\ pc = "batch" /\ phase = "Extracting"
    /\ regions' = getCandidateRegions(img, contours)
    /\ native' = NativeAfterExtract(variant, native, contours,
                                    getCandidateRegions(img, contours))
    /\ k' = 1
    /\ phase' = "RectifyCrop"
    /\ UNCHANGED <<variant, settings, inputs, asyncVars, pc, todo, counters, buf, img, contours,
                   scanMats, i, result, written, clipLog, history>>

LogEntry(region, rotOk, threw, pushed, errDelta) ==
    [cnt |-> region.cnt, rotOk |-> rotOk, roi |-> RegionRoi(img, region),
     threw |-> threw, pushed |-> pushed, errDelta |-> errDelta,
     angle |-> FixAngle(region.rect.angle)]

\* One iteration of clipScans' loop.  rotOk: whether cv.warpAffine succeeds
\* (it allocates a matrix of the whole image's size for every candidate).
RectifyCrop ==
    /\ pc = "batch" /\ phase = "RectifyCrop" /\ k <= Len(regions)
    /\ \E rotOk \in BOOLEAN :
         LET region == regions[k]
             rotated == rotateImage(img, FixAngle(region.rect.angle),
                                    getCenter(RotatedRectPoints(region.rect)))
             roi == RegionRoi(img, region)
             threw == ~rotOk \/ RoiThrows(rotated, roi)
         IN  /\ native' = NativeAfterClip(variant, native, region.cnt, rotOk,
                                          RoiThrows(rotated, roi))
             /\ IF ~rotOk /\ ~RotateInsideTry(variant)
                THEN /\ pc' = "crashed"
                     /\ UNCHANGED <<errors, k, scanMats, clipLog>>
                ELSE /\ pc' = pc
                     /\ k' = k + 1
                     /\ errors' = IF threw THEN errors + 1 ELSE errors
                     /\ scanMats' = IF threw THEN scanMats
                                    ELSE Append(scanMats,
                                           Roi(rotated, roi) @@ [cnt |-> region.cnt])
                     /\ clipLog' = Append(clipLog,
                                      LogEntry(region, rotOk, threw, ~threw,
                                               IF threw THEN 1 ELSE 0))
    /\ UNCHANGED <<variant, settings, inputs, asyncVars, todo, images, scans, phase, buf, img,
                   contours, regions, i, result, written, history>>

\* clipScans returns; processBuffer's loop over the scans begins.
ClipDone ==
    /\ pc = "batch" /\ phase = "RectifyCrop" /\ k > Len(regions)
    /\ phase' = "Emit"
    /\ i' = 1
    /\ UNCHANGED <<variant, settings, inputs, asyncVars, pc, todo, counters, buf, img, contours,
                   regions, k, scanMats, result, written, clipLog, history,
                   native>>

\* One iteration of processBuffer's loop over the scans.
EmitScan ==
    /\ pc = "batch" /\ phase = "Emit" /\ i <= Len(scanMats)
    /\ LET scan == scanMats[i]
           crop == EncodedCrop(EncodeFormat(variant, settings), scan)
           file == FileOf(i - 1, settings.outputFormat, crop)
       IN  /\ native' = NativeAfterEmit(variant, settings, native, scan.cnt,
                                         Empty(scan))
           /\ IF ~ScanCounts(scan)
              THEN UNCHANGED <<scans, result, written>>
              ELSE /\ scans' = scans + 1
                   /\ result' = CASE variant \in {"part000", "srcsrc"} ->
                                       Append(result, crop)
                                  [] variant = "main" -> result
                                  [] variant = "example" ->
                                       Append(result, EncodedCrop("raw", scan))
                   /\ written' = IF variant # "srcsrc" /\ WritesFiles(variant, settings)
                                 THEN Append(written, file) ELSE written
    /\ i' = i + 1
    /\ UNCHANGED <<variant, settings, inputs, asyncVars, pc, todo, images, errors, phase, buf, img,
                   contours, regions, k, scanMats, clipLog, history>>

EmitDone ==
    /\ pc = "batch" /\ phase = "Emit" /\ i > Len(scanMats)
    /\ phase' = "Done"
    /\ native' = NativeAfterLoop(variant, native)
    /\ UNCHANGED <<variant, settings, inputs, asyncVars, pc, todo, counters, callVars, history>>

\* processBuffer returns to the batch loop.  The cli of src/src writes the
\* returned crops itself, each under its index in the returned list.
Return ==
    /\ pc = "batch" /\ phase = "Done"
    /\ phase' = "Idle"
    /\ written' = IF variant = "srcsrc" /\ WritesFiles(variant, settings)
                  THEN [n \in 1..Len(result) |->
                          FileOf(n - 1, settings.outputFormat, result[n])]
                  ELSE written
    /\ first' = IF inputs = "replay" /\ first = NoRun THEN ThisRun ELSE first
    /\ UNCHANGED <<variant, settings, inputs, asyncVars, pc, todo, counters, buf, img, contours,
                   regions, k, scanMats, i, result, clipLog, calls, scans0,
                   errors0, native>>

\* The loop over the files is over: the summary is printed.
Summary ==
    /\ pc = "batch" /\ phase = "Idle" /\ todo = 0
    /\ pc' = "done"
    /\ UNCHANGED <<variant, settings, inputs, asyncVars, todo, counters, phase, callVars, history,
                   native>>

Next ==
    \/ InitCropper
    \/ StartFile
    \/ Decode
    \/ Preprocess
    \/ Extract
    \/ RectifyCrop
    \/ ClipDone
    \/ EmitScan
    \/ EmitDone
    \/ Return
    \/ Summary

Spec == Init /\ [][Next]_vars
SpecAll == InitAll /\ [][Next]_vars
SpecGeom == InitGeom /\ [][Next]_vars
SpecReplay == InitReplay /\ [][Next]_vars

\* The event loop runs every continuation that is ready, and the awaited
\* decoder and file system calls settle: a step that can be taken is taken.
SpecFair == Init /\ [][Next]_vars /\ WF_vars(Next)

(***************************************************************************)
(* The asynchronous side: the OpenCV runtime event, init(), and two        *)
(* processBuffer calls on one instance that are not awaited one after the  *)
(* other.  A call runs from one await to the next without interruption:    *)
(* `running` is the call that holds the thread.                            *)
(***************************************************************************)
AsyncVariants == {"part000", "srcsrc"}
AsyncSettings == {s \in SettingsSpace : s.outputDir = "ok" /\ s.outputFormat = "png"}
seqVars == <<pc, todo, phase, callVars, calls, scans0, errors0, first, native>>

\* src/cli.ts awaits the runtime event itself, before it calls init().
InitAsync ==
    /\ variant \in AsyncVariants
    /\ settings \in AsyncSettings
    /\ inputs = "replay"
    /\ SeqIdle
    /\ AsyncIdle(IF variant = "part000" THEN "cli" ELSE "none")

\* The runtime has loaded: the handler that stands in
\* cv.onRuntimeInitialized at that moment is called, once.
RuntimeReady ==
    /\ ~rt.ready
    /\ rt' = [rt EXCEPT !.ready = TRUE]
    /\ inits' = IF rt.handler \in InitIds
                THEN [inits EXCEPT ![rt.handler] = "resolved"] ELSE inits
    /\ UNCHANGED <<variant, settings, inputs, counters, seqVars, running, acall,
                   shared, conc>>

\* init().  src/src/ScanCropper.ts installs a handler that resolves the
\* promise it returns; part_000 awaits Deno.mkdir, and is called by
\* src/cli.ts after the runtime event.
CallInit(n) ==
    /\ inits[n] = "notcalled"
    /\ n = "init2" => inits["init1"] # "notcalled"
    /\ \A c \in CallIds : acall[c].st = "idle"
    /\ variant = "part000" => rt.ready
    /\ rt' = IF variant = "srcsrc" THEN [rt EXCEPT !.handler = n] ELSE rt
    /\ inits' = [inits EXCEPT ![n] = "pending"]
    /\ UNCHANGED <<variant, settings, inputs, counters, seqVars, running, acall,
                   shared, conc>>

\* part_000's init() returns: Deno.mkdir has settled, or was not needed.
MkdirSettles(n) ==
    /\ variant = "part000"
    /\ inits[n] = "pending"
    /\ inits' = [inits EXCEPT ![n] = "resolved"]
    /\ UNCHANGED <<variant, settings, inputs, counters, seqVars, rt, running, acall,
                   shared, conc>>

InFlight(c) == acall[c].st \notin {"idle", "returned"}

\* processBuffer is called, once every init() the caller awaits has
\* completed: this.images++, then the call waits for Image.load.
ACall(c) ==
    /\ running = 0
    /\ acall[c].st = "idle"
    /\ \A d \in CallIds : d < c => acall[d].st # "idle"
    /\ inits["init1"] = "resolved" /\ inits["init2"] \in {"notcalled", "resolved"}
    /\ \E b \in BuffersOf(inputs) :
         acall' = [acall EXCEPT ![c] = [NoCall EXCEPT !.st = "loading", !.buf = b]]
    /\ images' = ImagesOnEntry(images)
    /\ conc' = [conc EXCEPT !.overlapped = @ \/ \E d \in CallIds \ {c} : InFlight(d)]
    /\ UNCHANGED <<variant, settings, inputs, scans, errors, seqVars, rt, inits,
                   running, shared>>

\* No await stands between cv.findContours and getCandidateRegions.
SuspendsBeforeRegions_Await(v) == v = "srcsrc"
SuspendsBeforeRegions(v) == FALSE

\* Image.load has settled: the source matrix, blur, gray, threshold and
\* findContours, into the instance's buffers in src/src and into locals in
\* part_000.
ALoaded(c) ==
    /\ running = 0
    /\ acall[c].st = "loading"
    /\ IF variant = "srcsrc"
       THEN /\ shared' = [src |-> acall[c].buf,
                          contours |-> FindContoursInto(shared.contours,
                                                        acall[c].buf.blobs),
                          owner |-> c]
            /\ acall' = [acall EXCEPT ![c].st = "contours"]
       ELSE /\ shared' = shared
            /\ acall' = [acall EXCEPT ![c].st = "contours",
                                      ![c].src = acall[c].buf,
                                      ![c].contours =
                                          FindContoursInto(<<>>, acall[c].buf.blobs)]
    /\ running' = IF SuspendsBeforeRegions(variant) THEN 0 ELSE c
    /\ UNCHANGED <<variant, settings, inputs, counters, seqVars, rt, inits, conc>>

\* The cv.Rect clipScans computes for each rectangle of the replay inputs
\* in a decoded image, computed once.
RoiOf == [cnt \in ReplayNames |-> RegionRoi(DecodedImage, Region(cnt))]

\* clipScans as a whole: the crops of the regions for which neither
\* warpAffine (the candidates in fails) nor roi throws, in region order.
RECURSIVE ClipOf(_, _, _)
ClipOf(image, regs, fails) ==
    IF regs = <<>> THEN <<>>
    ELSE LET r == Head(regs)
             rotated == rotateImage(image, FixAngle(r.rect.angle),
                                    getCenter(RotatedRectPoints(r.rect)))
             roi == IF image = DecodedImage /\ r.cnt \in DOMAIN RoiOf
                    THEN RoiOf[r.cnt] ELSE RegionRoi(image, r)
         IN  (IF r.cnt \in fails \/ RoiThrows(rotated, roi) THEN <<>>
              ELSE <<Roi(rotated, roi) @@ [cnt |-> r.cnt]>>)
             \o ClipOf(image, Tail(regs), fails)

\* getCandidateRegions and clipScans on the source matrix and the contours:
\* this.matSrc and this.contours in src/src, the locals in part_000.
AClip(c) ==
    /\ acall[c].st = "contours"
    /\ running = IF SuspendsBeforeRegions(variant) THEN 0 ELSE c
    /\ LET mine == IF variant = "srcsrc" THEN shared ELSE acall[c]
           image == IF mine.src.decode = "ok" THEN DecodedImage ELSE NoMat
       IN  \E regs \in {getCandidateRegions(image, mine.contours)} :
           \E fails \in SUBSET {regs[n].cnt : n \in DOMAIN regs} :
           \E clipped \in {ClipOf(image, regs, fails)} :
             /\ acall' = [acall EXCEPT ![c].st = "emitting",
                                       ![c].fails = fails,
                                       ![c].scanMats = clipped,
                                       ![c].idx = 1]
             /\ errors' = errors + (Len(regs) - Len(clipped))
    /\ conc' = [conc EXCEPT !.stale = @ \/ (variant = "srcsrc" /\ shared.owner # c)]
    /\ running' = c
    /\ UNCHANGED <<variant, settings, inputs, images, scans, seqVars, rt, inits,
                   shared>>

\* One iteration of processBuffer's loop over the scans.  part_000 awaits
\* Deno.writeFile inside the loop.
AEmit(c) ==
    /\ acall[c].st = "emitting" /\ running = c
    /\ acall[c].idx <= Len(acall[c].scanMats)
    /\ LET scan == acall[c].scanMats[acall[c].idx]
           crop == EncodedCrop(EncodeFormat(variant, settings), scan)
           writes == /\ ScanCounts(scan) /\ variant = "part000"
                     /\ WritesFiles(variant, settings)
       IN  /\ scans' = IF ScanCounts(scan) THEN scans + 1 ELSE scans
           /\ acall' = [acall EXCEPT
                          ![c].idx = @ + 1,
                          ![c].crops = IF ScanCounts(scan) THEN Append(@, crop) ELSE @,
                          ![c].st = IF writes THEN "writing" ELSE "emitting"]
           /\ running' = IF writes THEN 0 ELSE c
    /\ UNCHANGED <<variant, settings, inputs, images, errors, seqVars, rt, inits,
                   shared, conc>>

\* Deno.writeFile has settled: the loop goes on.
AWritten(c) ==
    /\ acall[c].st = "writing" /\ running = 0
    /\ acall' = [acall EXCEPT ![c].st = "emitting"]
    /\ running' = c
    /\ UNCHANGED <<variant, settings, inputs, counters, seqVars, rt, inits, shared,
                   conc>>

\* The loop is over: part_000 returns, src/src awaits a timer first.
AEmitDone(c) ==
    /\ acall[c].st = "emitting" /\ running = c
    /\ acall[c].idx > Len(acall[c].scanMats)
    /\ acall' = [acall EXCEPT ![c].st = IF variant = "srcsrc" THEN "yielded"
                                        ELSE "returned"]
    /\ running' = 0
    /\ UNCHANGED <<variant, settings, inputs, counters, seqVars, rt, inits, shared,
                   conc>>

\* The timer of src/src has fired: the call returns outBuffers.
AReturn(c) ==
    /\ acall[c].st = "yielded" /\ running = 0
    /\ acall' = [acall EXCEPT ![c].st = "returned"]
    /\ UNCHANGED <<variant, settings, inputs, counters, seqVars, rt, inits, running,
                   shared, conc>>

NextAsync ==
    \/ RuntimeReady
    \/ \E n \in InitIds : CallInit(n)
    \/ \E n \in InitIds : MkdirSettles(n)
    \/ \E c \in CallIds : ACall(c)
    \/ \E c \in CallIds : ALoaded(c)
    \/ \E c \in CallIds : AClip(c)
    \/ \E c \in CallIds : AEmit(c)
    \/ \E c \in CallIds : AWritten(c)
    \/ \E c \in CallIds : AEmitDone(c)
    \/ \E c \in CallIds : AReturn(c)

\* The event loop runs every continuation that is ready; the runtime
\* loads, and the decoder, the file system and timers settle.
SpecAsync == InitAsync /\ [][NextAsync]_vars /\ WF_vars(NextAsync)


(***************************************************************************)
(* Properties.                                                             *)
(***************************************************************************)
Extracted == phase \in {"RectifyCrop", "Emit", "Done"}
CandidateNames == {regions[n].cnt : n \in DOMAIN regions}
ContourNames == {contours[n] : n \in DOMAIN contours}
\* The 0-based rank of a contour's region in the candidate list.
RankOf(cnt) == (CHOOSE n \in DOMAIN regions : regions[n].cnt = cnt) - 1
AreaOf(cnt) == RectArea(minAreaRect(cnt))
\* 0.03 x imageArea, in the units of RectArea.
ThreePercentOf(image) ==
    (AreaPercent * image.rows * image.cols * CoordScale * CoordScale) \div 100
LogOf(cnt) == clipLog[CHOOSE n \in DOMAIN clipLog : clipLog[n].cnt = cnt]
NonEmptyRoi(r) == r.width > 0 /\ r.height > 0

\* C1: a contour's rectangle is a candidate region if and only if its area
\* is strictly greater than 0.03 x (rows x cols) of the image; an area equal
\* to that threshold is excluded.
C1_AreaFilter ==
    Extracted =>
        /\ CandidateNames \subseteq ContourNames
        /\ \A c \in ContourNames :
             /\ AreaOf(c) > ThreePercentOf(img) => c \in CandidateNames
             /\ AreaOf(c) <= ThreePercentOf(img) => c \notin CandidateNames

\* C1 witness: an image with a rectangle of exactly the threshold area, which
\* was excluded, and one of the next whole area, which was included.
C1_Witness ==
    /\ Extracted
    /\ \E a, b \in ContourNames :
         /\ AreaOf(a) = ThreePercentOf(img) /\ a \notin CandidateNames
         /\ AreaOf(b) = ThreePercentOf(img) + CoordScale * CoordScale
         /\ b \in CandidateNames

\* C2: the candidate list handed to rectification is sorted by area
\* descending, and the returned crops appear in that order, whatever
\* happened to the candidates in between.
C2_SortedOrder ==
    Extracted =>
        /\ \A m, n \in DOMAIN regions : m < n => regions[m].area >= regions[n].area
        /\ \A m, n \in DOMAIN result :
             m < n => /\ RankOf(result[m].cnt) < RankOf(result[n].cnt)
                      /\ AreaOf(result[m].cnt) >= AreaOf(result[n].cnt)

\* C2 witness: three or more candidates, one of which failed and lies
\* between two whose crops were returned.
C2_Witness ==
    /\ phase = "Done"
    /\ Len(regions) >= 3
    /\ \E m, n \in DOMAIN result : \E e \in DOMAIN clipLog :
         /\ m < n /\ clipLog[e].threw
         /\ RankOf(result[m].cnt) < RankOf(clipLog[e].cnt)
         /\ RankOf(clipLog[e].cnt) < RankOf(result[n].cnt)

\* C3: every call of processBuffer / processInput increments the images
\* counter by exactly one, whatever the call's outcome.
C3_ImagesPerCall == images = calls

\* C3 witness: two calls were counted, the second of which failed to decode
\* after a first one that returned crops and met a failing region.
C3_Witness ==
    /\ calls = 2 /\ images = 2
    /\ buf.decode = "throws" /\ pc = "crashed"
    /\ scans > 0 /\ errors > 0

\* C4: during one call the scans counter increases by exactly the number of
\* candidates whose crop was extracted and is non-empty; it is not
\* incremented for a failed candidate or an empty crop.
C4_ScansPerCrop ==
    LET seen == IF phase \in {"Emit", "Done"}
                THEN {scanMats[j].cnt : j \in 1..(i - 1)} ELSE {}
        good == {c \in seen : /\ ~LogOf(c).threw
                              /\ NonEmptyRoi(LogOf(c).roi)}
    IN  phase # "Idle" =>
            /\ scans - scans0 = Cardinality(good)
            /\ phase = "Done" /\ buf.decode = "ok" =>
                 good = {c \in CandidateNames :
                           ~LogOf(c).threw /\ NonEmptyRoi(LogOf(c).roi)}

\* C4 witness: a call that ended with a failed candidate, an empty crop and
\* counted crops.
C4_Witness ==
    /\ phase = "Done"
    /\ scans - scans0 >= 2
    /\ \E n \in DOMAIN clipLog : clipLog[n].threw
    /\ \E j \in DOMAIN scanMats : Empty(scanMats[j])

\* C5: every candidate whose clipped rectangle has non-positive width or
\* height counts one error, yields no crop and counts no scan.
C5_NonPositiveIsError ==
    \A n \in DOMAIN clipLog :
        LET e == clipLog[n]
        IN  e.rotOk /\ (e.roi.width <= 0 \/ e.roi.height <= 0) =>
                /\ e.errDelta = 1
                /\ ~e.pushed

\* C6: a failure while rectifying or cropping a candidate never aborts:
\* the later candidates of the image are still handled and the batch goes
\* on.
C6_RegionFailureContained ==
    /\ ~(pc = "crashed" /\ phase = "RectifyCrop")
    /\ phase \in {"Emit", "Done"} => Len(clipLog) = Len(regions)

\* C7: an image that cannot be decoded is skipped with the scans and errors
\* counters unchanged, and the batch continues to its summary.
C7_DecodeFailureSkipped ==
    buf.decode \in {"throws", "empty"} =>
        /\ pc # "crashed"
        /\ scans = scans0 /\ errors = errors0

\* C8: when output is requested and the output directory cannot be
\* created, no processBuffer call is issued and the three counters stay 0.
C8_MkdirFailureFatal ==
    settings.writeOutput /\ settings.outputDir = "bad" =>
        /\ calls = 0 /\ phase = "Idle"
        /\ images = 0 /\ scans = 0 /\ errors = 0
        /\ pc \in {"new", "crashed"}

\* C8 witness: the directory could not be created and the run has ended.
C8_Witness ==
    settings.writeOutput /\ settings.outputDir = "bad" /\ pc = "crashed"

\* C9: every crop written to disk carries the rank of its region in the
\* area-descending candidate list as its index.
C9_FileIndexIsRank ==
    \A n \in DOMAIN written : written[n].index = RankOf(written[n].cnt)

\* C10: every encoded crop returned or written is encoded in
\* settings.outputFormat, the extension of the file it is written to.
C10_EncodedAsRequested ==
    /\ \A n \in DOMAIN result : result[n].format = settings.outputFormat
    /\ \A n \in DOMAIN written :
         /\ written[n].format = settings.outputFormat
         /\ written[n].ext = written[n].format

\* C13: an image none of whose contours qualifies (an all-white image has
\* none at all) gives an empty candidate list and an empty result, raises
\* no exception and leaves scans and errors as they were; the images
\* counter alone has grown, by the one of the call.
C13_NothingQualifies ==
    (/\ buf.decode = "ok"
     /\ \A c \in buf.blobs : AreaOf(c) <= ThreePercentOf(DecodedImage)) =>
        /\ pc # "crashed"
        /\ regions = <<>> /\ scanMats = <<>> /\ result = <<>> /\ written = <<>>
        /\ scans = scans0 /\ errors = errors0
        /\ images = calls

\* C13 witness: the second call of a batch was given an all-white image,
\* after a first image that counted scans and errors, and has ended.
C13_Witness ==
    /\ phase = "Done" /\ buf.decode = "ok" /\ buf.blobs = {}
    /\ calls = 2 /\ images = 2 /\ scans0 > 0 /\ errors0 > 0
    /\ scans = scans0 /\ errors = errors0

\* C17: no step of init, processBuffer or the batch loop decreases or
\* resets images, scans or errors, and a step raises a counter by one at
\* most.
C17_CountersMonotone ==
    [][/\ images' \in {images, images + 1}
       /\ scans' \in {scans, scans + 1}
       /\ errors' \in {errors, errors + 1}]_vars

\* C17 witness: in the second call of a batch every counter has grown again
\* from a value above zero.
C17_Witness ==
    /\ calls = 2 /\ images = 2
    /\ scans0 > 0 /\ scans > scans0
    /\ errors0 > 0 /\ errors > errors0

\* C18: when a call that decoded its image ends, the growth of scans plus
\* the growth of errors equals the number of candidate regions.
C18_EveryCandidateCounted ==
    phase = "Done" /\ buf.decode = "ok" =>
        (scans - scans0) + (errors - errors0) = Len(regions)

\* Pairs of handled candidates showing a rectangle of one size, the first
\* reported at 80 degrees and the second at -10 degrees.
Pairs80Minus10 ==
    {<<m, n>> \in (DOMAIN clipLog) \X (DOMAIN clipLog) :
        /\ minAreaRect(clipLog[m].cnt).angle = 80
        /\ minAreaRect(clipLog[n].cnt).angle = -10
        /\ minAreaRect(clipLog[m].cnt).size = minAreaRect(clipLog[n].cnt).size}
SameClipSize(e, f) ==
    e.roi.width = f.roi.width /\ e.roi.height = f.roi.height

PhaseRank(p) ==
    CASE p = "Idle" -> 0
      [] p = "Decoding" -> 1
      [] p = "Preprocessing" -> 2
      [] p = "Extracting" -> 3
      [] p = "RectifyCrop" -> 4
      [] p = "Emit" -> 5
      [] p = "Done" -> 6
PhaseStep ==
    phase' # phase =>
        CASE phase = "Idle" -> phase' = "Decoding"
          [] phase = "Done" -> phase' = "Idle"
          [] OTHER -> phase' # "Idle" /\ PhaseRank(phase') > PhaseRank(phase)

\* C14: a call moves through Decoding, Preprocessing, Extracting,
\* RectifyCrop and Done in that order and never back, leaves Done for Idle
\* only, and every call that was started ends with the session in Idle
\* again, whatever its outcome.
C14_PhasesThenIdle ==
    /\ [][PhaseStep]_vars
    /\ (phase # "Idle") ~> (phase = "Idle")

\* A call has ended: it stands at its return, or an exception left it.
CallEnded == phase = "Done" \/ (pc = "crashed" /\ phase # "Idle")
\* The native buffers the caller received: src/example.ts returns the
\* crops as cv.Mat, the other generations return encoded bytes.
HandedToCaller ==
    IF variant = "example"
    THEN PerContour("scan", {result[n].cnt : n \in DOMAIN result})
    ELSE {}

\* C16: when a call ends, by return or by exception, every native buffer
\* allocated during it and not handed to the caller has been deleted, and
\* none has been deleted twice.
C16_AllReleasedOnce ==
    /\ native.twice = {}
    /\ CallEnded => native.live \subseteq HandedToCaller

AloneScans(b, fails) ==
    ClipOf(DecodedImage, getCandidateRegions(DecodedImage, findContours(b.blobs)),
           fails)
AloneCrops(b, fails) ==
    LET counted == SelectSeq(AloneScans(b, fails), ScanCounts)
    IN  [n \in DOMAIN counted |->
            EncodedCrop(EncodeFormat(variant, settings), counted[n])]
AloneErrors(b, fails) ==
    Len(getCandidateRegions(DecodedImage, findContours(b.blobs)))
        - Len(AloneScans(b, fails))
AllReturned == \A c \in CallIds : acall[c].st = "returned"

\* C19: of two calls in flight on one instance, each returns the crops it
\* returns when run alone, the final counters are those of the two calls
\* run one after the other, and no call reads this.matSrc or this.contours
\* after the other call has overwritten them.
C19_CallsDoNotInterfere ==
    /\ ~conc.stale
    /\ \A c \in CallIds :
         acall[c].st = "returned" =>
             acall[c].crops = AloneCrops(acall[c].buf, acall[c].fails)
    /\ AllReturned =>
         /\ images = Cardinality(CallIds)
         /\ scans = Len(AloneCrops(acall[1].buf, acall[1].fails))
                      + Len(AloneCrops(acall[2].buf, acall[2].fails))
         /\ errors = AloneErrors(acall[1].buf, acall[1].fails)
                       + AloneErrors(acall[2].buf, acall[2].fails)

\* C19 witness: the instance with reusable buffers has returned from two
\* calls on different images, the second of which began while the first
\* was in flight; both returned crops and both met a failing candidate.
C19_Witness ==
    /\ AllReturned /\ conc.overlapped
    /\ variant = "srcsrc"
    /\ acall[1].buf # acall[2].buf
    /\ \A c \in CallIds : acall[c].crops # <<>> /\ acall[c].fails # {}

\* C20: every init() that was called completes, and the processBuffer call
\* awaited after it is started.
C20_InitCompletes ==
    /\ \A n \in InitIds : (inits[n] = "pending") ~> (inits[n] = "resolved")
    /\ (inits["init1"] = "pending") ~> (acall[1].st # "idle")

====
